---------------------------- MODULE Spec2Model ----------------------------
(***************************************************************************)
(* Audio capture and chunking pipeline of ai-helper (src-tauri/src/audio.rs *)
(* and src-tauri/src/lib.rs): device resolution, config negotiation, the    *)
(* per-format capture callbacks, the chunk dispatcher, the WAV/base64       *)
(* encoder and the start/stop control surface.                              *)
(***************************************************************************)
EXTENDS Integers, Sequences, FiniteSets

VARIABLES
    overflow_checks,  \* build profile: TRUE = overflow checks on (debug), FALSE = release
    streams,          \* InterviewStreams.0: Option<Vec<cpal::Stream>>, as stream ids
    streams_lock,     \* holder of the InterviewStreams mutex: "free" or "control"
    stream,           \* every cpal::Stream built so far, by id (index)
    sink,             \* the "audio-chunk" events handed to app.emit, in order
    ctl,              \* the control thread: the command in progress and its locals
    call              \* a single call of a pure helper: its arguments and result

vars == <<overflow_checks, streams, streams_lock, stream, sink, ctl, call>>

-----------------------------------------------------------------------------
(* Option<T> *)

None == [some |-> FALSE]

Some(x) == [some |-> TRUE, val |-> x]

IsSome(o) == o.some

-----------------------------------------------------------------------------
(* Program constants *)

\* audio.rs:332  "* 6": seconds of audio per chunk
ChunkSeconds == 6

\* audio.rs:339  "max_amp > 800"
AmplitudeGate == 800

\* audio.rs:357  "/ 5": level updates per second
UpdatesPerSecond == 5

I16Max == 32767

I16Min == -32768

\* audio.rs:297  the Uint16 midpoint
U16Mid == 32768

\* audio.rs:293  u16::MAX, the largest value of a "&[u16]" block
U16Max == 65535

-----------------------------------------------------------------------------
(* Bounds of the model *)

\* data callbacks delivered over a run
MaxCallbacks == 3

\* cpal streams built over a run
MaxStreams == 2

\* devices one host enumeration returns
MaxDevices == 2

\* entries of one supported_input_configs() list
MaxRanges == 2

\* integer sample inputs: how far from the ends and the middle of the type's
\* range every value is taken, and the step between the values taken elsewhere
PcmEdge == 256

PcmStride == 251

-----------------------------------------------------------------------------
(* Arithmetic helpers *)

Abs(x) == IF x < 0 THEN -x ELSE x

\* Iterator::max over a finite set of integers; dflt for the empty set
MaxOr(S, dflt) == IF S = {} THEN dflt ELSE CHOOSE x \in S : \A y \in S : y <= x

Range(s) == {s[i] : i \in 1..Len(s)}

\* a function with domain 1..n as a sequence in TLC's tuple form
AsSeq(f) == <<>> \o f

Run(n, v) == AsSeq([i \in 1..n |-> v])

-----------------------------------------------------------------------------
(* Sample formats and conversion to the canonical Int16 domain *)

\* An f32 sample is k / F32Den, or NaN, or +/- infinity. F32Den is a power of
\* two small enough that k / F32Den and its product with 32767.0 are exact in
\* f32, so integer arithmetic on k is the f32 arithmetic of the code.
F32Den == 2 ^ 4

F32Num(k) == [kind |-> "num", k |-> k]

F32NaN == [kind |-> "nan", k |-> 0]

F32Inf(sign) == [kind |-> "inf", k |-> sign]

\* f32::clamp(-1.0, 1.0): NaN stays NaN
F32Clamp(x) ==
    CASE x.kind = "nan" -> x
      [] x.kind = "inf" -> F32Num(x.k * F32Den)
      [] OTHER -> F32Num(IF x.k < -F32Den THEN -F32Den
                         ELSE IF x.k > F32Den THEN F32Den ELSE x.k)

\* A conversion that scales by 32768 instead of i16::MAX, the scale under
\* which -1.0 would reach i16::MIN
F32ScaleTruncate_By32768(x) ==
    IF x.kind = "nan" THEN 0
    ELSE LET p == x.k * 32768
             t == IF p < 0 THEN -((-p) \div F32Den) ELSE p \div F32Den
         IN  IF t > I16Max THEN I16Max ELSE IF t < I16Min THEN I16Min ELSE t

\* "x * i16::MAX as f32", then "as i16": truncation toward zero, saturating,
\* NaN to 0. The argument is a clamped value, so this is exact.
F32ScaleTruncate(x) ==
    IF x.kind = "nan" THEN 0
    ELSE LET p == x.k * I16Max
             t == IF p < 0 THEN -((-p) \div F32Den) ELSE p \div F32Den
         IN  IF t > I16Max THEN I16Max ELSE IF t < I16Min THEN I16Min ELSE t

\* audio.rs:253
ConvertF32(sample) == F32ScaleTruncate(F32Clamp(sample))

\* audio.rs:275  Int16 input is pushed as it is
ConvertI16(s) == s

\* A recentring that subtracts i16::MAX instead of the midpoint
ConvertU16_ByI16Max(sample) ==
    LET d == sample - I16Max
    IN  ((d + 32768) % 65536) - 32768

\* audio.rs:297  "(sample as i32 - 32768) as i16"
ConvertU16(sample) ==
    LET d == sample - U16Mid
    IN  ((d + 32768) % 65536) - 32768

Convert(format, sample) ==
    CASE format = "F32" -> ConvertF32(sample)
      [] format = "I16" -> ConvertI16(sample)
      [] format = "U16" -> ConvertU16(sample)

\* i16::abs overflows on i16::MIN: a panic with overflow checks, i16::MIN without
AbsOverflows(x) == x = I16Min

\* i16::abs as the build without overflow checks computes it (wrapping)
WrappingAbs(x) == IF x = I16Min THEN I16Min ELSE Abs(x)

-----------------------------------------------------------------------------
(* Container Encoder: create_wav_data and the base64 step *)

\* v as n little-endian bytes
LittleEndian(v, n) == AsSeq([i \in 1..n |-> (v \div (256 ^ (i - 1))) % 256])

\* an i16 sample as its two little-endian two's-complement bytes
SampleBytes(s) == LittleEndian(IF s < 0 THEN s + 65536 ELSE s, 2)

\* hound::WavWriter for WavSpec {channels, sample_rate, 16, Int}: the 44-byte
\* RIFF/WAVE header of a 16-bit PCM file
WavHeader(sample_rate, channels, data_len) ==
    <<82, 73, 70, 70>> \o LittleEndian(36 + data_len, 4)
      \o <<87, 65, 86, 69>> \o <<102, 109, 116, 32>> \o LittleEndian(16, 4)
      \o LittleEndian(1, 2) \o LittleEndian(channels, 2)
      \o LittleEndian(sample_rate, 4)
      \o LittleEndian(sample_rate * channels * 2, 4)
      \o LittleEndian(channels * 2, 2) \o LittleEndian(16, 2)
      \o <<100, 97, 116, 97>> \o LittleEndian(data_len, 4)

\* audio.rs:368-384
create_wav_data(sample_rate, channels, samples) ==
    WavHeader(sample_rate, channels, 2 * Len(samples))
      \o [i \in 1..(2 * Len(samples)) |-> SampleBytes(samples[(i + 1) \div 2])[2 - (i % 2)]]

\* audio.rs:377-381  the unwraps on the hound writer. WavWriter::new accepts
\* every 16-bit Int spec and write_sample every i16; finalize() returns
\* Err(UnfinishedSample) when the samples written are not whole frames.
UnfinishedSample(channels, samples) == Len(samples) % channels /= 0

\* general_purpose::STANDARD.encode: the text as alphabet indices 0..63, 64 for '='
Base64Encode(bytes) ==
    LET n == Len(bytes)
        byte(i) == IF i <= n THEN bytes[i] ELSE 0
    IN  AsSeq([j \in 1..(4 * ((n + 2) \div 3)) |->
            LET g  == (j - 1) \div 4
                p  == (j - 1) % 4
                b0 == byte(3 * g + 1)
                b1 == byte(3 * g + 2)
                b2 == byte(3 * g + 3)
            IN  CASE p = 0 -> b0 \div 4
                  [] p = 1 -> (b0 % 4) * 16 + (b1 \div 16)
                  [] p = 2 -> IF 3 * g + 2 > n THEN 64 ELSE (b1 % 16) * 4 + (b2 \div 64)
                  [] OTHER -> IF 3 * g + 3 > n THEN 64 ELSE b2 % 64])

-----------------------------------------------------------------------------
(* Chunk Dispatcher: check_and_send_buffer *)

AudioPayload(speaker, data, amplitude) ==
    [speaker |-> speaker, data |-> data, amplitude |-> amplitude]

\* audio.rs:332
Limit(sample_rate, channels) == sample_rate * channels * ChunkSeconds

\* A drain test that already fires at the limit
OverLimit_AtLimit(len, sample_rate, channels) == len >= Limit(sample_rate, channels)

\* audio.rs:334
OverLimit(len, sample_rate, channels) == len > Limit(sample_rate, channels)

\* audio.rs:339
PassesGate(max_amp) == max_amp > AmplitudeGate

\* audio.rs:357
UpdateInterval(sample_rate, channels) == (sample_rate * channels) \div UpdatesPerSecond

\* audio.rs:358
LevelUpdateDue(len, sample_rate, channels) ==
    LET update_interval == UpdateInterval(sample_rate, channels)
    IN  update_interval > 0 /\ len % update_interval < channels * 2

\* audio.rs:336  pcm_data.iter().map(|x| x.abs()).max().unwrap_or(0), where no
\* abs overflows
MaxAmp(pcm_data) == MaxOr({WrappingAbs(pcm_data[i]) : i \in 1..Len(pcm_data)}, 0)

\* audio.rs:339-354  the event of a drain of pcm_data whose peak is max_amp
DrainEvent(speaker, sample_rate, channels, pcm_data, max_amp, current_amp) ==
    IF PassesGate(max_amp)
    THEN AudioPayload(speaker,
                      Base64Encode(create_wav_data(sample_rate, channels, pcm_data)),
                      max_amp)
    ELSE AudioPayload(speaker, <<>>, current_amp)

\* A drain that takes the first limit + 1 samples only and leaves the rest
Drain_JustOverLimit(buf, sample_rate, channels, speaker, current_amp) ==
    LET n == Limit(sample_rate, channels) + 1
        head == SubSeq(buf, 1, n)
        rest == SubSeq(buf, n + 1, Len(buf))
    IN  IF overflow_checks /\ \E i \in 1..n : AbsOverflows(head[i])
        THEN [buf |-> rest, taken |-> Some(head), emitted |-> <<>>, panicked |-> TRUE]
        ELSE [buf |-> rest, taken |-> Some(head),
              emitted |-> <<DrainEvent(speaker, sample_rate, channels, head,
                                       MaxAmp(head), current_amp)>>,
              panicked |-> FALSE]

\* audio.rs:335-354  the drain: mem::take, the peak, the event
Drain(buf, sample_rate, channels, speaker, current_amp) ==
    IF overflow_checks /\ \E i \in 1..Len(buf) : AbsOverflows(buf[i])
    THEN [buf |-> <<>>, taken |-> Some(buf), emitted |-> <<>>, panicked |-> TRUE]
    ELSE [buf |-> <<>>, taken |-> Some(buf),
          emitted |-> <<DrainEvent(speaker, sample_rate, channels, buf,
                                   MaxAmp(buf), current_amp)>>,
          panicked |-> FALSE]

\* A dispatcher whose level-only event carries the peak of the whole buffer
check_and_send_buffer_BufferPeak(buf, sample_rate, channels, speaker, current_amp) ==
    IF OverLimit(Len(buf), sample_rate, channels)
    THEN Drain(buf, sample_rate, channels, speaker, current_amp)
    ELSE [buf |-> buf, taken |-> None,
          emitted |-> IF LevelUpdateDue(Len(buf), sample_rate, channels)
                      THEN <<AudioPayload(speaker, <<>>, MaxAmp(buf))>>
                      ELSE <<>>,
          panicked |-> FALSE]

\* audio.rs:323-366. The result: the buffer it leaves, the samples it took
\* (Some on a drain), the events it handed to app.emit, and whether it panicked.
check_and_send_buffer(buf, sample_rate, channels, speaker, current_amp) ==
    IF OverLimit(Len(buf), sample_rate, channels)
    THEN Drain(buf, sample_rate, channels, speaker, current_amp)
    ELSE [buf |-> buf, taken |-> None,
          emitted |-> IF LevelUpdateDue(Len(buf), sample_rate, channels)
                      THEN <<AudioPayload(speaker, <<>>, current_amp)>>
                      ELSE <<>>,
          panicked |-> FALSE]

-----------------------------------------------------------------------------
(* Capture Engine: the data callbacks of build_capture_stream *)

\* the first sample of a block whose abs overflows, 0 if none
FirstOverflow(converted) ==
    MaxOr({i \in 1..Len(converted) :
              /\ AbsOverflows(converted[i])
              /\ \A j \in 1..(i - 1) : ~AbsOverflows(converted[j])}, 0)

\* audio.rs:251-257  max_v after the loop, where no abs overflows: the wrapped
\* abs of i16::MIN is negative and never beats max_v
CallbackPeak(converted) ==
    MaxOr({0} \cup {WrappingAbs(converted[i]) : i \in 1..Len(converted)}, 0)

\* The record a stream keeps of its last callback: the raw block, the samples
\* pushed, the buffer length after the pushes, whether check_and_send_buffer
\* was reached, what it took and emitted, and callbackPeak
NoCallback ==
    [data |-> <<>>, appended |-> <<>>, len |-> 0, checked |-> FALSE,
     taken |-> None, emitted |-> <<>>, max_v |-> 0]

\* the block converted to the canonical Int16 domain, sample by sample
Converted(format, data) == AsSeq([i \in 1..Len(data) |-> Convert(format, data[i])])

\* The callback panicked in "abs" after pushing the samples in pushed: the
\* buffer mutex is poisoned and check_and_send_buffer is not reached.
Panicked(st, data, pushed) ==
    [st EXCEPT !.buf = st.buf \o pushed,
               !.poisoned = TRUE,
               !.callbacks = st.callbacks + 1,
               !.received = st.received + Len(pushed),
               !.last = [data |-> data, appended |-> pushed,
                         len |-> Len(st.buf) + Len(pushed), checked |-> FALSE,
                         taken |-> None, emitted |-> <<>>, max_v |-> 0]]

\* The callback pushed the whole block and check_and_send_buffer returned r
Dispatched(st, data, converted, max_v, r) ==
    [st EXCEPT !.buf = r.buf,
               !.poisoned = r.panicked,
               !.callbacks = st.callbacks + 1,
               !.received = st.received + Len(converted),
               !.last = [data |-> data, appended |-> converted,
                         len |-> Len(st.buf) + Len(converted), checked |-> TRUE,
                         taken |-> r.taken, emitted |-> r.emitted, max_v |-> max_v]]

\* audio.rs:258, 279, 302  the call of check_and_send_buffer after the loop
Checked(st, data, converted, max_v) ==
    Dispatched(st, data, converted, max_v,
               check_and_send_buffer(st.buf \o converted, st.config.sample_rate,
                                     st.config.channels, st.speaker, max_v))

\* audio.rs:250-258, 272-279, 293-302  the loop over the block; k is the first
\* sample whose abs overflows, 0 if none
Pushed(st, data, converted, k) ==
    IF overflow_checks /\ k > 0
    THEN Panicked(st, data, SubSeq(converted, 1, k))
    ELSE Checked(st, data, converted, CallbackPeak(converted))

\* One run of a data callback (audio.rs:249-259, 271-280, 292-303) on stream
\* record st with the raw block data: the stream record it leaves.
RunCallback(st, data) ==
    Pushed(st, data, Converted(st.config.sample_format, data),
           FirstOverflow(Converted(st.config.sample_format, data)))

-----------------------------------------------------------------------------
(* The cpal host as the code sees it *)

\* cpal::SupportedStreamConfig
Config(sample_rate, channels, sample_format) ==
    [sample_rate |-> sample_rate, channels |-> channels, sample_format |-> sample_format]

\* cpal::SupportedStreamConfigRange
ConfigRange(min_sample_rate, max_sample_rate, channels, sample_format) ==
    [min_sample_rate |-> min_sample_rate, max_sample_rate |-> max_sample_rate,
     channels |-> channels, sample_format |-> sample_format]

\* SupportedStreamConfigRange::with_max_sample_rate
with_max_sample_rate(r) == Config(r.max_sample_rate, r.channels, r.sample_format)

\* A cpal::Device: what each query the code makes of it answers. None is Err.
Device(name, default_in, supported_in, default_out, build_ok, play_ok) ==
    [name |-> name,
     default_input_config |-> default_in,
     supported_input_configs |-> supported_in,
     default_output_config |-> default_out,
     build_ok |-> build_ok, play_ok |-> play_ok]

\* A cpal::Host: the devices present, whether host.devices() succeeds on the
\* first and on a repeated call, and the default devices.
Host(present, devices_ok, again_ok, default_output_device, default_input_device) ==
    [present |-> present, devices_ok |-> devices_ok, again_ok |-> again_ok,
     default_output_device |-> default_output_device,
     default_input_device |-> default_input_device]

\* audio.rs:128  d.name().ok().as_deref() == Some(name)
NameIs(d, name) == d.name = Some(name)

\* audio.rs:129  the input-capability probe
InputCapable(d) ==
    \/ IsSome(d.default_input_config)
    \/ /\ IsSome(d.supported_input_configs)
       /\ Len(d.supported_input_configs.val) > 0

\* the least index in a set of indices, 0 if it is empty: the first loop
\* iteration that returns, Iterator::find
FirstOf(I) == IF I = {} THEN 0 ELSE CHOOSE i \in I : \A j \in I : i <= j

\* audio.rs:137-142, 170  the first device with the name
FirstNamed(devices, name) ==
    FirstOf({i \in 1..Len(devices) : NameIs(devices[i], name)})

\* audio.rs:127-134  the first device with the name that passes the probe
FirstInputCapableNamed(devices, name) ==
    FirstOf({i \in 1..Len(devices) : NameIs(devices[i], name) /\ InputCapable(devices[i])})

-----------------------------------------------------------------------------
(* Device Resolver *)

\* audio.rs:169-171
clone_device_by_name(host, name) ==
    IF ~host.again_ok THEN None
    ELSE LET i == FirstNamed(host.present, name)
         IN  IF i = 0 THEN None ELSE Some(host.present[i])

\* audio.rs:148-165
RoleDefault(host, speaker_type) ==
    IF speaker_type = "interviewer"
    THEN host.default_output_device
    ELSE host.default_input_device

\* A resolver without step 2: a name that no input-capable device carries
\* goes straight to the role default
resolve_device_NoStep2(host, speaker_type, target_name) ==
    IF IsSome(target_name)
    THEN LET name == target_name.val
         IN  IF ~host.devices_ok THEN None
             ELSE IF FirstInputCapableNamed(host.present, name) > 0
                  THEN clone_device_by_name(host, name)
                  ELSE RoleDefault(host, speaker_type)
    ELSE RoleDefault(host, speaker_type)

\* audio.rs:114-166
resolve_device(host, speaker_type, target_name) ==
    IF IsSome(target_name)
    THEN LET name == target_name.val
         IN  IF ~host.devices_ok THEN None
             ELSE LET all_devices == host.present
                      i == FirstInputCapableNamed(all_devices, name)
                      j == FirstNamed(all_devices, name)
                  IN  IF i > 0 THEN clone_device_by_name(host, name)
                      ELSE IF j > 0 THEN Some(all_devices[j])
                      ELSE RoleDefault(host, speaker_type)
    ELSE RoleDefault(host, speaker_type)

-----------------------------------------------------------------------------
(* Config Negotiator *)

\* A score that prefers Float32 to Int16
format_score_F32First(sample_format) ==
    CASE sample_format = "F32" -> 2
      [] sample_format = "I16" -> 1
      [] OTHER -> 0

\* audio.rs:190-194
format_score(sample_format) ==
    CASE sample_format = "I16" -> 2
      [] sample_format = "F32" -> 1
      [] OTHER -> 0

\* audio.rs:195  the key, compared as a tuple
KeyLeq(a, b) ==
    \/ format_score(a.sample_format) < format_score(b.sample_format)
    \/ /\ format_score(a.sample_format) = format_score(b.sample_format)
       /\ a.max_sample_rate <= b.max_sample_rate

\* audio.rs:188-196  Iterator::max_by_key: the last of the maximal elements
MaxByKey(configs) ==
    CHOOSE i \in 1..Len(configs) :
        /\ \A j \in 1..Len(configs) : KeyLeq(configs[j], configs[i])
        /\ \A j \in (i + 1)..Len(configs) : ~KeyLeq(configs[i], configs[j])

\* audio.rs:176-226
resolve_input_config(device) ==
    IF IsSome(device.default_input_config)
    THEN device.default_input_config
    ELSE IF /\ IsSome(device.supported_input_configs)
            /\ Len(device.supported_input_configs.val) > 0
         THEN LET configs == device.supported_input_configs.val
              IN  Some(with_max_sample_rate(configs[MaxByKey(configs)]))
         ELSE device.default_output_config

-----------------------------------------------------------------------------
(* Capture Engine: build_capture_stream and start_listening *)

\* audio.rs:242-312  the encodings build_capture_stream has a callback for
SupportedFormats == {"F32", "I16", "U16"}

\* A cpal::Stream with what its callback closure owns. status is "playing"
\* after play(), "dropped" once the handle is dropped; received counts the
\* samples pushed since the stream was built; discarded, the samples that
\* were in the buffer when the drop freed it.
NewStream(speaker, config, status) ==
    [status |-> status, speaker |-> speaker, config |-> config, buf |-> <<>>,
     poisoned |-> FALSE, callbacks |-> 0, received |-> 0, discarded |-> 0,
     last |-> NoCallback]

\* audio.rs:229-321  whether build_capture_stream returns Some
build_capture_stream(device, config) ==
    /\ config.sample_format \in SupportedFormats
    /\ device.build_ok

\* A start_listening that returns the stream whether or not play() succeeded
start_listening_IgnoringPlay(host, speaker_type, target_device_name) ==
    LET device == resolve_device(host, speaker_type, target_device_name)
        config == IF IsSome(device) THEN resolve_input_config(device.val) ELSE None
        built  == IsSome(config) /\ build_capture_stream(device.val, config.val)
    IN  [device |-> device, config |-> config, built |-> built, played |-> built]

\* audio.rs:71-111  start_listening up to its return: the device and config it
\* resolved, whether a stream was built, and whether it was returned playing
start_listening(host, speaker_type, target_device_name) ==
    LET device == resolve_device(host, speaker_type, target_device_name)
        config == IF IsSome(device) THEN resolve_input_config(device.val) ELSE None
        built  == IsSome(config) /\ build_capture_stream(device.val, config.val)
        played == built /\ device.val.play_ok
    IN  [device |-> device, config |-> config, built |-> built, played |-> played]

-----------------------------------------------------------------------------
(* Device Catalog: get_audio_devices *)

\* A device name as get_audio_devices sees it: a sequence of characters
UpperCase == <<"A", "B", "C", "D", "E", "F", "G", "H", "I", "J", "K", "L", "M", "N", "O", "P", "Q", "R", "S", "T", "U", "V", "W", "X", "Y", "Z">>

LowerCase == <<"a", "b", "c", "d", "e", "f", "g", "h", "i", "j", "k", "l", "m", "n", "o", "p", "q", "r", "s", "t", "u", "v", "w", "x", "y", "z">>

\* A case-sensitive variant of char lowering: every character stays as it is
ToLowerChar_CaseSensitive(c) == c

\* audio.rs:38  str::to_lowercase, one character (ASCII letters)
ToLowerChar(c) ==
    IF \E i \in 1..Len(UpperCase) : UpperCase[i] = c
    THEN LowerCase[CHOOSE i \in 1..Len(UpperCase) : UpperCase[i] = c]
    ELSE c

\* audio.rs:38  name.to_lowercase()
ToLowercase(name) == [i \in 1..Len(name) |-> ToLowerChar(name[i])]

\* audio.rs:38  str::contains
Contains(text, pattern) ==
    \E k \in 0..(Len(text) - Len(pattern)) :
        \A i \in 1..Len(pattern) : text[k + i] = pattern[i]

\* audio.rs:38
IsLoopback(name) == Contains(ToLowercase(name), <<"l", "o", "o", "p", "b", "a", "c", "k">>)

\* audio.rs:14-18
DeviceInfo(name, is_input) == [name |-> name, is_input |-> is_input]

\* The host as get_audio_devices sees it: the result of host.input_devices()
\* and of host.output_devices() (None is Err), each a list of the results of
\* d.name() (None is Err)
CatalogHost(input_devices, output_devices) ==
    [input_devices |-> input_devices, output_devices |-> output_devices]

\* audio.rs:30, 37  seen_names: a name is inserted exactly when it is pushed
SeenNames(devices) == {devices[i].name : i \in 1..Len(devices)}

RECURSIVE PushInputs(_, _)
\* audio.rs:34-45  the loop over the input devices
PushInputs(devices, names) ==
    IF names = <<>> THEN devices
    ELSE IF ~IsSome(Head(names)) \/ Head(names).val \in SeenNames(devices)
         THEN PushInputs(devices, Tail(names))
         ELSE PushInputs(Append(devices,
                                DeviceInfo(Head(names).val, ~IsLoopback(Head(names).val))),
                         Tail(names))

RECURSIVE PushOutputs(_, _)
\* audio.rs:50-56  the loop over the output devices
PushOutputs(devices, names) ==
    IF names = <<>> THEN devices
    ELSE IF ~IsSome(Head(names)) \/ Head(names).val \in SeenNames(devices)
         THEN PushOutputs(devices, Tail(names))
         ELSE PushOutputs(Append(devices, DeviceInfo(Head(names).val, FALSE)),
                          Tail(names))

\* audio.rs:33, 49  "if let Ok(..)": the devices looped over, none on Err
Enumerated(r) == IF IsSome(r) THEN r.val ELSE <<>>

\* audio.rs:27-58
get_audio_devices(host) ==
    PushOutputs(PushInputs(<<>>, Enumerated(host.input_devices)),
                Enumerated(host.output_devices))

-----------------------------------------------------------------------------
(* Inputs of the model: configurations, devices, hosts, callback blocks *)

MonoI16 == Config(20, 1, "I16")

MonoU16 == Config(20, 1, "U16")

StereoF32 == Config(15, 2, "F32")

\* the configuration of the spec's drain-threshold example
Mono16k == Config(16000, 1, "I16")

MonoU8 == Config(20, 1, "U8")

CaptureConfigs == {MonoI16, MonoU16, StereoF32, Mono16k}

\* the raw sample that converts to 0
Silence(format) ==
    CASE format = "F32" -> F32Num(0)
      [] format = "U16" -> U16Mid
      [] OTHER -> 0

\* raw sample values of the short blocks
SmallValues(config) ==
    CASE config.sample_rate >= 1000 -> {0}
      [] config.sample_format = "I16" -> {0, 801, I16Min}
      [] config.sample_format = "U16" -> {U16Mid, 0, 65535}
      [] OTHER -> {F32Num(0), F32Num(F32Den), F32Num(-F32Den), F32NaN}

\* raw sample values of the long blocks
BigValues(config) ==
    CASE config.sample_rate >= 1000 -> {0}
      [] config.sample_format = "I16" -> {0, 799, 800}
      [] config.sample_format = "U16" -> {U16Mid, U16Mid + 800, U16Mid - 801}
      [] OTHER -> {F32Num(0), F32Num(1)}

\* The blocks the hardware delivers, each a whole number of frames: one frame
\* of one value, two frames that are silent after the first sample, and a
\* block as long as the drain limit.
CaptureBlocks(config) ==
    LET ch == config.channels
        zero == Silence(config.sample_format)
    IN  {Run(ch, v) : v \in SmallValues(config)}
          \cup {<<v>> \o Run(2 * ch - 1, zero) : v \in SmallValues(config)}
          \cup {Run(Limit(config.sample_rate, ch), w) : w \in BigValues(config)}

\* The blocks of the start/stop model: a silent frame, and a silent block
\* one frame longer than the drain limit
LifecycleBlocks(config) ==
    LET ch == config.channels
        zero == Silence(config.sample_format)
    IN  {Run(ch, zero), Run(Limit(config.sample_rate, ch) + ch, zero)}

Mic(name, config) ==
    Device(name, Some(config), Some(<<ConfigRange(config.sample_rate, config.sample_rate, config.channels, config.sample_format)>>), None, TRUE, TRUE)

\* an input endpoint whose default_input_config fails but that lists configs
Listed(name) ==
    Device(name, None, Some(<<ConfigRange(15, 15, 2, "F32")>>), None, TRUE, TRUE)

\* an output-only device: every input query fails
Speakers(name) == Device(name, None, None, Some(StereoF32), TRUE, TRUE)

\* a device no strategy finds a configuration for
Unusable(name) == Device(name, None, Some(<<>>), None, TRUE, TRUE)

DeviceNames == {Some("X"), Some("Y")}

ResolveDevices ==
    {Mic(n, MonoI16) : n \in DeviceNames} \cup {Listed(n) : n \in DeviceNames}
      \cup {Speakers(n) : n \in DeviceNames} \cup {Mic(None, MonoI16)}

\* the sequences over S of length at most n
SeqsUpTo(S, n) == UNION {[1..k -> S] : k \in 0..n}

OptSeq(o) == IF IsSome(o) THEN <<o.val>> ELSE <<>>

\* Hosts for the resolver: up to MaxDevices devices, then the default devices
ResolveHosts ==
    {Host(l \o OptSeq(dout) \o OptSeq(din), m[1], m[2], dout, din) :
        l \in SeqsUpTo(ResolveDevices, MaxDevices),
        m \in {<<TRUE, TRUE>>, <<TRUE, FALSE>>, <<FALSE, FALSE>>},
        dout \in {None, Some(Speakers(Some("Out")))},
        din \in {None, Some(Mic(Some("In"), MonoI16))}}

TargetNames == {None} \cup DeviceNames

SpeakerTypes == {"interviewer", "user"}

\* Devices for the negotiator: every combination of the three queries' answers
NegotiateRanges ==
    {ConfigRange(10, r, c, f) : r \in {15, 20}, c \in {1, 2}, f \in {"I16", "F32", "U8"}}

NegotiateDevices ==
    {Device(Some("X"), din, sup, dout, TRUE, TRUE) :
        din \in {None, Some(MonoU16)},
        sup \in {None} \cup {Some(l) : l \in SeqsUpTo(NegotiateRanges, MaxRanges)},
        dout \in {None, Some(StereoF32)}}

\* Hosts for start_listening: one device named X, perhaps a default output
CaptureDevices ==
    {Mic(Some("X"), MonoI16), Mic(Some("X"), MonoU8),
     Speakers(Some("X")), Unusable(Some("X")),
     [Mic(Some("X"), MonoI16) EXCEPT !.build_ok = FALSE],
     [Mic(Some("X"), MonoI16) EXCEPT !.play_ok = FALSE]}

CaptureHosts ==
    {Host(<<d>> \o OptSeq(dout), ok, ok, dout, None) :
        d \in CaptureDevices, ok \in BOOLEAN,
        dout \in {None, Some(Speakers(Some("Out")))}}
      \cup {Host(<<>>, TRUE, TRUE, None, None)}

\* f32 inputs of the conversion: k / F32Den around [-1, 1], NaN, infinities
F32Samples ==
    {F32Num(k) : k \in (-3 * F32Den)..(3 * F32Den)}
      \cup {F32NaN, F32Inf(1), F32Inf(-1)}

-----------------------------------------------------------------------------
(* State *)

\* the control thread between commands, before the first
IdleCtl ==
    [pc |-> "idle", returned |-> "none", streams_vec |-> <<>>,
     device |-> None, config |-> None, built |-> FALSE]

NoCall == [fn |-> "none", args |-> <<>>, done |-> TRUE, result |-> None]

PendingCall(fn, args) == [fn |-> fn, args |-> args, done |-> FALSE, result |-> None]

\* lib.rs:150  run(): InterviewStreams(Arc::new(Mutex::new(None)))
Init ==
    /\ overflow_checks \in BOOLEAN
    /\ streams = None
    /\ streams_lock = "free"
    /\ stream = <<>>
    /\ sink = <<>>
    /\ ctl = IdleCtl
    /\ call = NoCall

\* A drop that frees the buffer but leaves the stream running
DropStream_StillPlaying(st) ==
    [st EXCEPT !.buf = <<>>, !.discarded = Len(st.buf), !.last = NoCallback]

\* Drop of a cpal::Stream handle: the stream stops and its closure, with the
\* buffer it owns, is freed
DropStream(st) ==
    [st EXCEPT !.status = "dropped", !.buf = <<>>, !.discarded = Len(st.buf),
               !.last = NoCallback]

DropStreams(table, ids) ==
    [i \in 1..Len(table) |->
        IF i \in Range(ids) THEN DropStream(table[i]) ELSE table[i]]

\* the stream ids an Option<Vec<Stream>> owns
Owned(o) == IF IsSome(o) THEN o.val ELSE <<>>

-----------------------------------------------------------------------------
(* Control surface: start_interview_mode and stop_interview_mode *)

\* lib.rs:79-93  streams_vec is built from the result of start_listening. A
\* stream that was built but failed to play is dropped when start_listening
\* returns None.
StartListening(host, interviewer_device) ==
    /\ ctl.pc = "idle"
    /\ Len(stream) < MaxStreams
    /\ LET r == start_listening(host, "interviewer", interviewer_device)
           id == Len(stream) + 1
       IN  /\ stream' = IF r.built
                        THEN Append(stream,
                                    NewStream("interviewer", r.config.val,
                                              IF r.played THEN "playing" ELSE "dropped"))
                        ELSE stream
           /\ ctl' = [ctl EXCEPT !.pc = "start_lock",
                                 !.streams_vec = IF r.played THEN <<id>> ELSE <<>>,
                                 !.device = r.device,
                                 !.config = r.config,
                                 !.built = r.built]
    /\ UNCHANGED <<overflow_checks, streams, streams_lock, sink, call>>

\* lib.rs:95  state.0.lock().unwrap()
StartLock ==
    /\ ctl.pc = "start_lock"
    /\ streams_lock = "free"
    /\ streams_lock' = "control"
    /\ ctl' = [ctl EXCEPT !.pc = "start_install"]
    /\ UNCHANGED <<overflow_checks, streams, stream, sink, call>>

\* lib.rs:96  *streams = Some(streams_vec): the replaced value is dropped
StartInstall ==
    /\ ctl.pc = "start_install"
    /\ streams' = Some(ctl.streams_vec)
    /\ stream' = DropStreams(stream, Owned(streams))
    /\ ctl' = [ctl EXCEPT !.pc = "start_return"]
    /\ UNCHANGED <<overflow_checks, streams_lock, sink, call>>

\* lib.rs:97  the guard goes out of scope and the command returns
StartReturn ==
    /\ ctl.pc = "start_return"
    /\ streams_lock' = "free"
    /\ ctl' = [IdleCtl EXCEPT !.returned = "start"]
    /\ UNCHANGED <<overflow_checks, streams, stream, sink, call>>

\* lib.rs:102-103
StopLock ==
    /\ ctl.pc = "idle"
    /\ streams_lock = "free"
    /\ streams_lock' = "control"
    /\ ctl' = [ctl EXCEPT !.pc = "stop_clear"]
    /\ UNCHANGED <<overflow_checks, streams, stream, sink, call>>

\* A stop that leaves an empty vector where the code leaves None
StopClear_EmptyVec ==
    /\ ctl.pc = "stop_clear"
    /\ streams' = Some(<<>>)
    /\ stream' = DropStreams(stream, Owned(streams))
    /\ ctl' = [ctl EXCEPT !.pc = "stop_return"]
    /\ UNCHANGED <<overflow_checks, streams_lock, sink, call>>

\* lib.rs:104  *streams = None: the replaced value is dropped
StopClear ==
    /\ ctl.pc = "stop_clear"
    /\ streams' = None
    /\ stream' = DropStreams(stream, Owned(streams))
    /\ ctl' = [ctl EXCEPT !.pc = "stop_return"]
    /\ UNCHANGED <<overflow_checks, streams_lock, sink, call>>

\* lib.rs:105
StopReturn ==
    /\ ctl.pc = "stop_return"
    /\ streams_lock' = "free"
    /\ ctl' = [IdleCtl EXCEPT !.returned = "stop"]
    /\ UNCHANGED <<overflow_checks, streams, stream, sink, call>>

-----------------------------------------------------------------------------
(* Hardware callbacks *)

\* the events of one callback as the sink records them
Emitted(id, payloads) ==
    [i \in 1..Len(payloads) |-> [stream |-> id, payload |-> payloads[i]]]

\* A data callback of stream id fires with block data. cpal calls it only on
\* a stream that is playing and not dropped; once the callback has panicked
\* its thread is gone and the buffer mutex is poisoned.
RECURSIVE CallbacksUpTo(_, _)
\* the callbacks delivered so far to the first n streams of the table
CallbacksUpTo(table, n) ==
    IF n = 0 THEN 0 ELSE table[n].callbacks + CallbacksUpTo(table, n - 1)

Deliver(id, st) ==
    /\ stream' = [stream EXCEPT ![id] = st]
    /\ sink' = sink \o Emitted(id, st.last.emitted)

Callback(id, data) ==
    /\ stream[id].status = "playing"
    /\ ~stream[id].poisoned
    /\ CallbacksUpTo(stream, Len(stream)) < MaxCallbacks
    /\ Deliver(id, RunCallback(stream[id], data))
    /\ UNCHANGED <<overflow_checks, streams, streams_lock, ctl, call>>

\* audio.rs:249-259
CallbackF32(id, data) ==
    /\ stream[id].config.sample_format = "F32"
    /\ Callback(id, data)

\* audio.rs:271-280
CallbackI16(id, data) ==
    /\ stream[id].config.sample_format = "I16"
    /\ Callback(id, data)

\* audio.rs:292-303
CallbackU16(id, data) ==
    /\ stream[id].config.sample_format = "U16"
    /\ Callback(id, data)

-----------------------------------------------------------------------------
(* The program: commands from the shell, callbacks from the hardware *)

Next ==
    \/ \E host \in CaptureHosts, interviewer_device \in {None, Some("X")} :
          StartListening(host, interviewer_device)
    \/ StartLock
    \/ StartInstall
    \/ StartReturn
    \/ StopLock
    \/ StopClear
    \/ StopReturn
    \/ \E id \in 1..Len(stream) : \E data \in LifecycleBlocks(stream[id].config) :
          CallbackF32(id, data)
    \/ \E id \in 1..Len(stream) : \E data \in LifecycleBlocks(stream[id].config) :
          CallbackI16(id, data)

Spec == Init /\ [][Next]_vars

-----------------------------------------------------------------------------
(* One open stream and its callbacks *)

\* The state after start_interview_mode has returned with one stream playing
InitCapture ==
    /\ overflow_checks \in BOOLEAN
    /\ \E config \in CaptureConfigs :
          stream = <<NewStream("interviewer", config, "playing")>>
    /\ streams = Some(<<1>>)
    /\ streams_lock = "free"
    /\ sink = <<>>
    /\ ctl = [IdleCtl EXCEPT !.returned = "start"]
    /\ call = NoCall

NextCapture ==
    \/ \E data \in CaptureBlocks(stream[1].config) : CallbackF32(1, data)
    \/ \E data \in CaptureBlocks(stream[1].config) : CallbackI16(1, data)
    \/ \E data \in CaptureBlocks(stream[1].config) : CallbackU16(1, data)

SpecCapture == InitCapture /\ [][NextCapture]_vars

-----------------------------------------------------------------------------
(* Single calls of the pure helpers *)

InitPure(calls) ==
    /\ overflow_checks = FALSE
    /\ streams = None
    /\ streams_lock = "free"
    /\ stream = <<>>
    /\ sink = <<>>
    /\ ctl = IdleCtl
    /\ call \in calls

Return(result) ==
    /\ ~call.done
    /\ call' = [call EXCEPT !.done = TRUE, !.result = result]
    /\ UNCHANGED <<overflow_checks, streams, streams_lock, stream, sink, ctl>>

CallResolveDevice ==
    /\ call.fn = "resolve_device"
    /\ Return(resolve_device(call.args.host, call.args.speaker_type, call.args.target_name))

InitResolve ==
    InitPure({PendingCall("resolve_device",
                          [host |-> h, speaker_type |-> t, target_name |-> n]) :
                 h \in ResolveHosts, t \in SpeakerTypes, n \in TargetNames})

SpecResolve == InitResolve /\ [][CallResolveDevice]_vars

CallResolveInputConfig ==
    /\ call.fn = "resolve_input_config"
    /\ Return(resolve_input_config(call.args.device))

InitNegotiate ==
    InitPure({PendingCall("resolve_input_config", [device |-> d]) : d \in NegotiateDevices})

SpecNegotiate == InitNegotiate /\ [][CallResolveInputConfig]_vars

CallConvertF32 ==
    /\ call.fn = "convert_f32"
    /\ Return(Some(ConvertF32(call.args.sample)))

InitConvert ==
    InitPure({PendingCall("convert_f32", [sample |-> x]) : x \in F32Samples})

SpecConvert == InitConvert /\ [][CallConvertF32]_vars

\* audio.rs:297  one sample through the Uint16 closure's conversion
CallConvertU16 ==
    /\ call.fn = "convert_u16"
    /\ Return(Some(ConvertU16(call.args.sample)))

\* audio.rs:274-275  one sample through the Int16 closure
CallConvertI16 ==
    /\ call.fn = "convert_i16"
    /\ Return(Some(ConvertI16(call.args.sample)))

\* the values of lo..hi within PcmEdge of lo, of mid or of hi, and every
\* PcmStride-th value in between
PcmSamples(lo, mid, hi) ==
    {v \in lo..hi : \/ v - lo <= PcmEdge
                    \/ hi - v <= PcmEdge
                    \/ Abs(v - mid) <= PcmEdge
                    \/ (v - lo) % PcmStride = 0}

\* u16 and i16 input values
InitConvertPcm ==
    InitPure({PendingCall("convert_u16", [sample |-> v]) : v \in PcmSamples(0, U16Mid, U16Max)}
               \cup {PendingCall("convert_i16", [sample |-> v]) : v \in PcmSamples(I16Min, 0, I16Max)})

NextConvertPcm ==
    \/ CallConvertU16
    \/ CallConvertI16

SpecConvertPcm == InitConvertPcm /\ [][NextConvertPcm]_vars

\* the results of d.name() in the catalog model: a plain name, names that
\* contain "loopback" in lower and in mixed case, a near miss, and Err
CatalogNames ==
    {Some(<<"M", "i", "c">>), Some(<<"l", "o", "o", "p", "b", "a", "c", "k">>),
     Some(<<"A", " ", "L", "o", "o", "p", "B", "a", "c", "k">>), Some(<<"l", "o", "o", "p", " ", "b", "a", "c", "k">>), None}

\* the results of an enumeration: Err, or up to MaxDevices devices
CatalogLists == {None} \cup {Some(l) : l \in SeqsUpTo(CatalogNames, MaxDevices)}

CallGetAudioDevices ==
    /\ call.fn = "get_audio_devices"
    /\ Return(Some(get_audio_devices(call.args.host)))

InitCatalog ==
    InitPure({PendingCall("get_audio_devices", [host |-> CatalogHost(i, o)]) :
                 i \in CatalogLists, o \in CatalogLists})

SpecCatalog == InitCatalog /\ [][CallGetAudioDevices]_vars

-----------------------------------------------------------------------------
(* One data callback, step by step, with the buffer mutex *)

\* The callback thread inside a data callback of stream id: its position,
\* whether it holds the MutexGuard "b" of the stream's buffer, the block,
\* the stream record at entry, and the locals max_v, pcm_data and the event
\* it is about to emit.
CallbackThread(id, data, start) ==
    [fn |-> "data_callback", pc |-> "push", guard |-> TRUE, id |-> id,
     data |-> data, start |-> start, max_v |-> 0, taken |-> None, event |-> <<>>]

\* audio.rs:250, 272, 293  buf.lock().unwrap() at the top of the closure. Only
\* the closure holds a clone of the buffer's Arc, so the mutex is free.
CbLock(id, data) ==
    /\ call = NoCall
    /\ stream[id].status = "playing"
    /\ ~stream[id].poisoned
    /\ CallbacksUpTo(stream, Len(stream)) < MaxCallbacks
    /\ call' = CallbackThread(id, data, stream[id])
    /\ UNCHANGED <<overflow_checks, streams, streams_lock, stream, sink, ctl>>

\* audio.rs:251-257, 273-278, 294-301  the loop: convert, push, track max_v.
\* A panic in abs unwinds the closure: the guard is dropped, the mutex is
\* poisoned.
CbPush ==
    /\ call.fn = "data_callback"
    /\ call.pc = "push"
    /\ LET st == stream[call.id]
           converted == Converted(st.config.sample_format, call.data)
           k == FirstOverflow(converted)
       IN  IF overflow_checks /\ k > 0
           THEN /\ stream' = [stream EXCEPT ![call.id] =
                                 Panicked(st, call.data, SubSeq(converted, 1, k))]
                /\ call' = NoCall
           ELSE /\ stream' = [stream EXCEPT ![call.id].buf = st.buf \o converted]
                /\ call' = [call EXCEPT !.pc = "check",
                                        !.max_v = CallbackPeak(converted)]
    /\ UNCHANGED <<overflow_checks, streams, streams_lock, sink, ctl>>

\* audio.rs:332-335, 355-358  the limit test; the take, or the interval test
CbCheck ==
    /\ call.fn = "data_callback"
    /\ call.pc = "check"
    /\ LET st == stream[call.id]
           sample_rate == st.config.sample_rate
           channels == st.config.channels
       IN  IF OverLimit(Len(st.buf), sample_rate, channels)
           THEN /\ stream' = [stream EXCEPT ![call.id].buf = <<>>]
                /\ call' = [call EXCEPT !.pc = "peak", !.taken = Some(st.buf)]
           ELSE /\ stream' = stream
                /\ call' = IF LevelUpdateDue(Len(st.buf), sample_rate, channels)
                           THEN [call EXCEPT !.pc = "emit",
                                             !.event = <<AudioPayload(st.speaker, <<>>, call.max_v)>>]
                           ELSE [call EXCEPT !.pc = "return"]
    /\ UNCHANGED <<overflow_checks, streams, streams_lock, sink, ctl>>

\* audio.rs:336-339, 347-353  max_amp and the gate; below the gate the event
\* is the silent one
CbPeak ==
    /\ call.fn = "data_callback"
    /\ call.pc = "peak"
    /\ LET st == stream[call.id]
           pcm_data == call.taken.val
       IN  IF overflow_checks /\ \E i \in 1..Len(pcm_data) : AbsOverflows(pcm_data[i])
           THEN /\ stream' = [stream EXCEPT ![call.id] =
                                 Dispatched(call.start, call.data,
                                            Converted(st.config.sample_format, call.data),
                                            call.max_v,
                                            [buf |-> <<>>, taken |-> call.taken,
                                             emitted |-> <<>>, panicked |-> TRUE])]
                /\ call' = NoCall
           ELSE /\ stream' = stream
                /\ call' = IF PassesGate(MaxAmp(pcm_data))
                           THEN [call EXCEPT !.pc = "encode"]
                           ELSE [call EXCEPT !.pc = "emit",
                                             !.event = <<AudioPayload(st.speaker, <<>>, call.max_v)>>]
    /\ UNCHANGED <<overflow_checks, streams, streams_lock, sink, ctl>>

\* audio.rs:340-341  create_wav_data and the base64 encoding
CbEncode ==
    /\ call.fn = "data_callback"
    /\ call.pc = "encode"
    /\ LET st == stream[call.id]
       IN  call' = [call EXCEPT
                      !.pc = "emit",
                      !.event = <<DrainEvent(st.speaker, st.config.sample_rate,
                                             st.config.channels, call.taken.val,
                                             MaxAmp(call.taken.val), call.max_v)>>]
    /\ UNCHANGED <<overflow_checks, streams, streams_lock, stream, sink, ctl>>

\* audio.rs:342, 349, 359  app.emit("audio-chunk", ..)
CbEmit ==
    /\ call.fn = "data_callback"
    /\ call.pc = "emit"
    /\ sink' = sink \o Emitted(call.id, call.event)
    /\ call' = [call EXCEPT !.pc = "return"]
    /\ UNCHANGED <<overflow_checks, streams, streams_lock, stream, ctl>>

\* audio.rs:259, 280, 303  the closure returns and the guard "b" is dropped
CbReturn ==
    /\ call.fn = "data_callback"
    /\ call.pc = "return"
    /\ LET st == stream[call.id]
       IN  stream' = [stream EXCEPT ![call.id] =
                         Dispatched(call.start, call.data,
                                    Converted(st.config.sample_format, call.data),
                                    call.max_v,
                                    [buf |-> st.buf, taken |-> call.taken,
                                     emitted |-> call.event, panicked |-> FALSE])]
    /\ call' = NoCall
    /\ UNCHANGED <<overflow_checks, streams, streams_lock, sink, ctl>>

NextCallbackSteps ==
    \/ \E data \in CaptureBlocks(stream[1].config) : CbLock(1, data)
    \/ CbPush
    \/ CbCheck
    \/ CbPeak
    \/ CbEncode
    \/ CbEmit
    \/ CbReturn

SpecCallbackSteps == InitCapture /\ [][NextCallbackSteps]_vars

-----------------------------------------------------------------------------
(* Properties *)

StreamIds == 1..Len(stream)

\* the events stream id has handed to the sink, in order
EventsOf(id) == SelectSeq(sink, LAMBDA e : e.stream = id)

\* a level-only event: no payload
LevelOnly(e) == e.payload.data = <<>>

\* stream id has drained nothing yet: every sample received is in the buffer
NothingDrained(id) == stream[id].received = Len(stream[id].buf)

\* the mathematical peak of a sample sequence
TruePeak(samples) == MaxOr({Abs(samples[i]) : i \in 1..Len(samples)}, 0)

\* the last callback of stream id reached check_and_send_buffer and drained
DrainedLast(id) == stream[id].last.checked /\ IsSome(stream[id].last.taken)

\* C1: whenever check_and_send_buffer has run in a callback, it drained the
\* buffer if and only if the length after that callback's pushes is strictly
\* greater than sampleRate * channelCount * 6; at 16000 Hz mono that is
\* exactly when the length exceeds 96000.
C1_DrainIffOverLimit ==
    \A id \in StreamIds :
        LET st == stream[id]
        IN  st.last.checked =>
              /\ IsSome(st.last.taken) <=>
                    st.last.len > st.config.sample_rate * st.config.channels * 6
              /\ (st.config.sample_rate = 16000 /\ st.config.channels = 1) =>
                    (IsSome(st.last.taken) <=> st.last.len > 96000)
              /\ IsSome(st.last.taken) => st.buf = <<>>

\* C1 witness: the 16000 Hz mono stream drains at length 96001
C1_Witness ==
    \E id \in StreamIds :
        /\ stream[id].config.sample_rate = 16000
        /\ stream[id].config.channels = 1
        /\ DrainedLast(id)
        /\ stream[id].last.len = 96001

\* C2: on every drain the event has a non-empty payload if and only if the
\* maximum absolute sample of the drained buffer is strictly greater than 800.
C2_PayloadIffPeakOverGate ==
    \A id \in StreamIds :
        DrainedLast(id) /\ ~stream[id].poisoned =>
            /\ Len(stream[id].last.emitted) = 1
            /\ stream[id].last.emitted[1].data # <<>> <=>
                  TruePeak(stream[id].last.taken.val) > 800

\* C3: while nothing has been drained, the level-only events a stream has
\* emitted number one per (sampleRate * channelCount) / 5 accumulated
\* samples, whatever the sizes of the blocks that brought them.
C3_LevelEventsPerInterval ==
    \A id \in StreamIds :
        LET st == stream[id]
            interval == (st.config.sample_rate * st.config.channels) \div 5
        IN  NothingDrained(id) /\ ~st.poisoned =>
              Len(SelectSeq(EventsOf(id), LevelOnly)) = Len(st.buf) \div interval

\* C4: a stream fed only zeros from its opening has, once the callback that
\* brings the buffer to sampleRate * channelCount / 5 samples has run,
\* emitted exactly one event, level-only with amplitude 0.
C4_OneSilentEventPerInterval ==
    \A id \in StreamIds :
        LET st == stream[id]
            interval == (st.config.sample_rate * st.config.channels) \div 5
        IN  /\ NothingDrained(id)
            /\ \A i \in 1..Len(st.buf) : st.buf[i] = 0
            /\ st.last.checked
            /\ Len(st.buf) >= interval
            /\ Len(st.buf) - Len(st.last.appended) < interval
            => /\ Len(EventsOf(id)) = 1
               /\ EventsOf(id)[1].payload.data = <<>>
               /\ EventsOf(id)[1].payload.amplitude = 0

\* the control thread is between commands and the last one was a stop
AfterStop == ctl.pc = "idle" /\ ctl.returned = "stop"

\* C5: once stop_interview_mode has returned, the ActiveStreamSet is None and
\* every stream started before is dropped with its buffer freed; a dropped
\* stream never runs a callback or emits an event again; and the step that
\* drops a stream discards what its buffer held without emitting anything.
C5_StopHaltsStreams ==
    /\ [](AfterStop =>
            /\ streams = None
            /\ \A id \in StreamIds :
                  stream[id].status = "dropped" /\ stream[id].buf = <<>>)
    /\ [][\A id \in StreamIds :
            /\ stream[id].status = "dropped" =>
                  /\ stream'[id] = stream[id]
                  /\ EventsOf(id)' = EventsOf(id)
            /\ (stream[id].status = "playing" /\ stream'[id].status = "dropped") =>
                  /\ sink' = sink
                  /\ stream'[id].discarded = Len(stream[id].buf)]_vars

\* C5 witness: stop has returned after a stream that had emitted an event was
\* dropped with samples still in its buffer
C5_Witness ==
    /\ AfterStop
    /\ \E id \in StreamIds :
          /\ stream[id].status = "dropped"
          /\ stream[id].discarded > 0
          /\ Len(EventsOf(id)) > 0

\* the requested name of a resolve_device call is carried by some enumerated
\* device, and by none that passes the input-capability probe
OnlyPlaybackNamed(host, name) ==
    /\ host.devices_ok
    /\ \E i \in 1..Len(host.present) : host.present[i].name = Some(name)
    /\ \A i \in 1..Len(host.present) :
          host.present[i].name = Some(name) =>
              /\ ~IsSome(host.present[i].default_input_config)
              /\ \/ ~IsSome(host.present[i].supported_input_configs)
                 \/ host.present[i].supported_input_configs.val = <<>>

\* C6: resolve_device for the interviewer role with a requested name that
\* only devices failing the input-capability probe carry returns an
\* enumerated device of that name, never None.
C6_NameOnlyPlaybackResolves ==
    (/\ call.fn = "resolve_device"
     /\ call.done
     /\ call.args.speaker_type = "interviewer"
     /\ IsSome(call.args.target_name)
     /\ OnlyPlaybackNamed(call.args.host, call.args.target_name.val))
    => /\ IsSome(call.result)
       /\ call.result.val.name = call.args.target_name
       /\ call.result.val \in Range(call.args.host.present)

\* C6 witness: such a call has returned, on a host that also has a default
\* output device of another name
C6_Witness ==
    /\ call.fn = "resolve_device"
    /\ call.done
    /\ call.args.speaker_type = "interviewer"
    /\ call.args.target_name = Some("X")
    /\ OnlyPlaybackNamed(call.args.host, "X")
    /\ IsSome(call.args.host.default_output_device)
    /\ call.result = Some(Speakers(Some("X")))

\* the devices the host enumerates: none when enumeration fails
Enumerable(host) == IF host.devices_ok THEN host.present ELSE <<>>

\* C7: when no name is requested or no enumerable device has the requested
\* name, resolve_device returns the role default; it returns None only if no
\* enumerable device has the requested name and the role default is absent.
C7_RoleDefaultFallback ==
    (call.fn = "resolve_device" /\ call.done) =>
        LET host == call.args.host
            target == call.args.target_name
            role_default == IF call.args.speaker_type = "interviewer"
                            THEN host.default_output_device
                            ELSE host.default_input_device
            matched == /\ IsSome(target)
                       /\ \E i \in 1..Len(Enumerable(host)) :
                             Enumerable(host)[i].name = target
        IN  /\ ~matched => call.result = role_default
            /\ ~IsSome(call.result) => (~matched /\ ~IsSome(role_default))

\* C8: resolve_input_config returns the default capture configuration if
\* there is one; else, if the supported list is non-empty, a range no other
\* range beats on (Int16 over Float32 over the rest, then maximum sample
\* rate), at its maximum rate; else the default playback configuration; and
\* None exactly when all three fail.
C8_StrategyOrder ==
    (call.fn = "resolve_input_config" /\ call.done) =>
        LET d == call.args.device
            r == call.result
            listed == IF IsSome(d.supported_input_configs)
                      THEN d.supported_input_configs.val ELSE <<>>
            Score(f) == IF f = "I16" THEN 2 ELSE IF f = "F32" THEN 1 ELSE 0
            Beats(a, b) ==
                \/ Score(a.sample_format) > Score(b.sample_format)
                \/ /\ Score(a.sample_format) = Score(b.sample_format)
                   /\ a.max_sample_rate > b.max_sample_rate
        IN  /\ IsSome(d.default_input_config) => r = d.default_input_config
            /\ (~IsSome(d.default_input_config) /\ listed # <<>>) =>
                  \E i \in 1..Len(listed) :
                      /\ \A j \in 1..Len(listed) : ~Beats(listed[j], listed[i])
                      /\ r = Some([sample_rate |-> listed[i].max_sample_rate,
                                   channels |-> listed[i].channels,
                                   sample_format |-> listed[i].sample_format])
            /\ (~IsSome(d.default_input_config) /\ listed = <<>>) =>
                  r = d.default_output_config
            /\ ~IsSome(r) <=> /\ ~IsSome(d.default_input_config)
                              /\ listed = <<>>
                              /\ ~IsSome(d.default_output_config)

\* C8 witness: with no default capture configuration, a Float32 range at
\* 20 Hz listed before an Int16 range at 15 Hz, and a default playback
\* configuration, the call returned Int16 at 15 Hz
C8_Witness ==
    /\ call.fn = "resolve_input_config"
    /\ call.done
    /\ ~IsSome(call.args.device.default_input_config)
    /\ IsSome(call.args.device.default_output_config)
    /\ IsSome(call.args.device.supported_input_configs)
    /\ Len(call.args.device.supported_input_configs.val) = 2
    /\ call.args.device.supported_input_configs.val[1].sample_format = "F32"
    /\ call.args.device.supported_input_configs.val[1].max_sample_rate = 20
    /\ call.args.device.supported_input_configs.val[2].sample_format = "I16"
    /\ call.args.device.supported_input_configs.val[2].max_sample_rate = 15
    /\ call.result = Some(Config(15, call.args.device.supported_input_configs.val[2].channels, "I16"))

\* start_interview_mode is past its start_listening call, and that call met
\* one of the failures: no device, no configuration, an encoding without a
\* callback, a rejected construction, or a failed play()
StartFailed ==
    /\ ctl.pc \in {"start_lock", "start_install", "start_return"}
    /\ \/ ~IsSome(ctl.device)
       \/ ~IsSome(ctl.config)
       \/ ctl.config.val.sample_format \notin {"F32", "I16", "U16"}
       \/ ~ctl.device.val.build_ok
       \/ ~ctl.device.val.play_ok

\* C9: when start_listening meets one of the failures it returns None
\* (streams_vec stays empty), the step emits nothing, a stream it built is
\* already dropped and has run no callback; a stream that has run no callback
\* has emitted nothing and a dropped stream never runs one; and
\* start_interview_mode goes on to install zero streams, leaving none running.
C9_FailedStartLeavesNothing ==
    /\ [](StartFailed =>
            /\ ctl.streams_vec = <<>>
            /\ ctl.built =>
                  /\ stream[Len(stream)].status = "dropped"
                  /\ stream[Len(stream)].callbacks = 0
            /\ ctl.pc = "start_return" =>
                  /\ streams = Some(<<>>)
                  /\ \A id \in StreamIds : stream[id].status # "playing")
    /\ [](\A id \in StreamIds : stream[id].callbacks = 0 => EventsOf(id) = <<>>)
    /\ [][/\ (ctl.pc = "idle" /\ StartFailed') =>
                /\ sink' = sink
                /\ Len(stream') = Len(stream) + (IF ctl'.built THEN 1 ELSE 0)
          /\ \A id \in StreamIds :
                stream[id].status = "dropped" =>
                    stream'[id].callbacks = stream[id].callbacks]_vars

\* C9 witness: play() failed on a built stream and start_interview_mode has
\* installed the empty vector
C9_Witness ==
    /\ StartFailed
    /\ ctl.pc = "start_return"
    /\ ctl.built
    /\ ~ctl.device.val.play_ok
    /\ streams = Some(<<>>)
    /\ stream[Len(stream)].status = "dropped"

\* the value of k / F32Den scaled by 32767 and truncated toward zero
ScaledBy32767(k) ==
    IF k < 0 THEN -(((-k) * 32767) \div F32Den) ELSE (k * 32767) \div F32Den

\* C10 as stated: clamp, scale by 32767, truncate; 1.0 and above give 32767,
\* -1.0 and below give -32768.
C10_ConvertF32_MinusOneIsMin ==
    (call.fn = "convert_f32" /\ call.done) =>
        LET x == call.args.sample
            r == call.result.val
        IN  /\ ((x.kind = "num" /\ x.k >= F32Den) \/ (x.kind = "inf" /\ x.k = 1)) =>
                  r = 32767
            /\ ((x.kind = "num" /\ x.k <= -F32Den) \/ (x.kind = "inf" /\ x.k = -1)) =>
                  r = -32768
            /\ (x.kind = "num" /\ -F32Den < x.k /\ x.k < F32Den) =>
                  r = ScaledBy32767(x.k)

\* C10 amended: clamp, scale by 32767, truncate; 1.0 and above give 32767,
\* -1.0 and below give -32767.
C10_ConvertF32_MinusOneIsMinusMax ==
    (call.fn = "convert_f32" /\ call.done) =>
        LET x == call.args.sample
            r == call.result.val
        IN  /\ ((x.kind = "num" /\ x.k >= F32Den) \/ (x.kind = "inf" /\ x.k = 1)) =>
                  r = 32767
            /\ ((x.kind = "num" /\ x.k <= -F32Den) \/ (x.kind = "inf" /\ x.k = -1)) =>
                  r = -32767
            /\ (x.kind = "num" /\ -F32Den < x.k /\ x.k < F32Den) =>
                  r = ScaledBy32767(x.k)

\* C10 witness: the conversion of -1.0 has returned -32767
C10_Witness ==
    /\ call.fn = "convert_f32"
    /\ call.done
    /\ call.args.sample = F32Num(-F32Den)
    /\ call.result = Some(-32767)

\* C11: the Uint16 closure appends v - 32768 for every v in 0..65535, a value
\* in the Int16 range (0 gives -32768, 32768 gives 0, 65535 gives 32767); the
\* Int16 closure appends its input unchanged.
C11_PcmConversions ==
    call.done =>
        /\ call.fn = "convert_u16" =>
              /\ call.result.val = call.args.sample - 32768
              /\ call.result.val >= -32768
              /\ call.result.val <= 32767
              /\ call.args.sample = 0 => call.result.val = -32768
              /\ call.args.sample = 32768 => call.result.val = 0
              /\ call.args.sample = 65535 => call.result.val = 32767
        /\ call.fn = "convert_i16" => call.result.val = call.args.sample

\* C11 witness: Uint16 input 0 has been converted to -32768
C11_Witness ==
    /\ call.fn = "convert_u16"
    /\ call.done
    /\ call.args.sample = 0
    /\ call.result = Some(-32768)

\* stop_interview_mode is running
InStop == ctl.pc \in {"stop_clear", "stop_return"}

\* C12: a stop_interview_mode that begins with the ActiveStreamSet at None
\* (the initial state, or after a stop) leaves it None and changes no stream
\* and no event; every stop returns with the lock free; and a stop that
\* follows a stop ends in the very state it began in.
C12_StopWithoutCaptureIsNoOp ==
    /\ [](InStop /\ ctl.returned \in {"none", "stop"} =>
            /\ streams = None
            /\ streams_lock = "control")
    /\ [][/\ (streams = None /\ (InStop \/ InStop')) =>
                /\ streams' = None
                /\ stream' = stream
                /\ sink' = sink
          /\ (ctl.pc = "stop_return" /\ ctl'.pc = "idle") =>
                /\ streams_lock' = "free"
                /\ ctl'.returned = "stop"
                /\ ctl.returned = "stop" =>
                      /\ ctl' = [IdleCtl EXCEPT !.returned = "stop"]
                      /\ <<overflow_checks, streams, stream, sink, call>>' =
                            <<overflow_checks, streams, stream, sink, call>>]_vars

\* C12 witness: a stop that follows a stop has passed its assignment
C12_Witness ==
    /\ ctl.pc = "stop_return"
    /\ ctl.returned = "stop"
    /\ streams = None

\* the names an enumeration yields, in order: none when it fails, and none
\* for a device whose name cannot be read
NamesIn(r) ==
    IF IsSome(r) THEN SelectSeq(r.val, LAMBDA n : n.some) ELSE <<>>

\* name carries the letters l-o-o-p-b-a-c-k in a row, each in either case
HasLoopback(name) ==
    LET lower == <<"l", "o", "o", "p", "b", "a", "c", "k">>
        upper == <<"L", "O", "O", "P", "B", "A", "C", "K">>
    IN  \E k \in 0..(Len(name) - 8) :
            \A i \in 1..8 : name[k + i] \in {lower[i], upper[i]}

\* C13: a get_audio_devices snapshot has no two entries of one name; it lists
\* every name the two enumerations yield, inputs before outputs, each at its
\* first occurrence; a name the input enumeration yields is_input exactly
\* when it does not contain "loopback" in any case, even if the output
\* enumeration yields it too; a name only the output enumeration yields is
\* not is_input; a failed enumeration contributes nothing.
C13_CatalogSnapshot ==
    (call.fn = "get_audio_devices" /\ call.done) =>
        LET r == call.result.val
            ins == NamesIn(call.args.host.input_devices)
            outs == NamesIn(call.args.host.output_devices)
            all == ins \o outs
            FirstAt(n) == CHOOSE k \in 1..Len(all) :
                              all[k] = n /\ \A j \in 1..(k - 1) : all[j] # n
        IN  /\ \A i, j \in 1..Len(r) : r[i].name = r[j].name => i = j
            /\ {r[i].name : i \in 1..Len(r)} = {all[k].val : k \in 1..Len(all)}
            /\ \A i, j \in 1..Len(r) :
                  i < j => FirstAt(Some(r[i].name)) < FirstAt(Some(r[j].name))
            /\ \A i \in 1..Len(r) :
                  r[i].is_input <=>
                      /\ Some(r[i].name) \in Range(ins)
                      /\ ~HasLoopback(r[i].name)
            /\ ~IsSome(call.args.host.input_devices) =>
                  /\ Len(r) <= Len(outs)
                  /\ \A i \in 1..Len(r) : ~r[i].is_input
            /\ ~IsSome(call.args.host.output_devices) => Len(r) <= Len(ins)

\* C13 witness: the input enumeration yields a mixed-case loopback name twice
\* and the output enumeration yields it again after a microphone name that
\* the inputs lack; the snapshot has the two names once each
C13_Witness ==
    /\ call.fn = "get_audio_devices"
    /\ call.done
    /\ IsSome(call.args.host.input_devices)
    /\ IsSome(call.args.host.output_devices)
    /\ Len(call.args.host.input_devices.val) = 2
    /\ call.args.host.input_devices.val[1] = call.args.host.input_devices.val[2]
    /\ IsSome(call.args.host.input_devices.val[1])
    /\ HasLoopback(call.args.host.input_devices.val[1].val)
    /\ call.args.host.input_devices.val[1].val # ToLowercase(call.args.host.input_devices.val[1].val)
    /\ Len(call.args.host.output_devices.val) = 2
    /\ call.args.host.output_devices.val[2] = call.args.host.input_devices.val[1]
    /\ call.args.host.output_devices.val[1] = Some(<<"M", "i", "c">>)
    /\ Len(call.result.val) = 2
    /\ ~call.result.val[1].is_input
    /\ ~call.result.val[2].is_input

\* the bytes a base64 text (alphabet indices, 64 for '=') stands for
Base64Decode(text) ==
    LET n == Len(text)
        pad == Cardinality({j \in 1..n : text[j] = 64})
        c(j) == IF text[j] = 64 THEN 0 ELSE text[j]
    IN  AsSeq([j \in 1..(3 * (n \div 4) - pad) |->
            LET g == (j - 1) \div 3
                q == (j - 1) % 3
            IN  CASE q = 0 -> c(4 * g + 1) * 4 + (c(4 * g + 2) \div 16)
                  [] q = 1 -> (c(4 * g + 2) % 16) * 16 + (c(4 * g + 3) \div 4)
                  [] OTHER -> (c(4 * g + 3) % 4) * 64 + c(4 * g + 4)])

\* the unsigned little-endian number in bytes from..to of a file
FieldAt(bytes, from, to) ==
    IF from > to THEN 0
    ELSE LET F[k \in from..to] ==
                 bytes[k] + 256 * (IF k = to THEN 0 ELSE F[k + 1])
         IN  F[from]

\* the 16-bit samples after the 44-byte header of a WAV file
WavSamples(bytes) ==
    AsSeq([k \in 1..((Len(bytes) - 44) \div 2) |->
        LET u == FieldAt(bytes, 43 + 2 * k, 44 + 2 * k)
        IN  IF u >= 32768 THEN u - 65536 ELSE u])

\* text is the base64 of a 16-bit PCM WAV file of exactly these samples at
\* this rate and channel count
EncodesExactly(text, sample_rate, channels, samples) ==
    LET bytes == Base64Decode(text)
    IN  /\ Len(bytes) = 44 + 2 * Len(samples)
        /\ SubSeq(bytes, 1, 4) = <<82, 73, 70, 70>>
        /\ SubSeq(bytes, 9, 16) = <<87, 65, 86, 69, 102, 109, 116, 32>>
        /\ FieldAt(bytes, 21, 22) = 1
        /\ FieldAt(bytes, 23, 24) = channels
        /\ FieldAt(bytes, 25, 28) = sample_rate
        /\ FieldAt(bytes, 35, 36) = 16
        /\ SubSeq(bytes, 37, 40) = <<100, 97, 116, 97>>
        /\ FieldAt(bytes, 41, 44) = 2 * Len(samples)
        /\ WavSamples(bytes) = samples

\* C14: the event of a drain carries, when the maximum absolute value of the
\* drained samples is above 800, the encoding of exactly those samples and
\* that maximum as amplitude; otherwise an empty payload and, as amplitude,
\* the maximum absolute value of the samples of this callback's block.
C14_DrainEventContents ==
    \A id \in StreamIds :
        (DrainedLast(id) /\ ~stream[id].poisoned) =>
            LET st == stream[id]
                e == st.last.emitted[1]
                taken == st.last.taken.val
            IN  /\ Len(st.last.emitted) = 1
                /\ IF TruePeak(taken) > 800
                   THEN /\ EncodesExactly(e.data, st.config.sample_rate,
                                          st.config.channels, taken)
                        /\ e.amplitude = TruePeak(taken)
                   ELSE /\ e.data = <<>>
                        /\ e.amplitude = TruePeak(st.last.appended)

\* the step is a callback of stream id in which check_and_send_buffer ran
\* on a buffer at or below the limit
DispatchedAtOrBelowLimit(id) ==
    /\ stream'[id].callbacks = stream[id].callbacks + 1
    /\ stream'[id].last.checked
    /\ stream'[id].last.len <= stream[id].config.sample_rate * stream[id].config.channels * 6

\* C15: a callback whose buffer length after the pushes is at or below the
\* limit leaves the buffer as the previous contents followed by the block's
\* converted samples, takes nothing, and hands the sink at most one event,
\* with empty payload and the callbackPeak it was called with as amplitude; a
\* callback that takes nothing never emits a payload.
C15_NoDrainFrame ==
    /\ [][\A id \in StreamIds :
            DispatchedAtOrBelowLimit(id) =>
                LET new == stream'[id]
                IN  /\ new.buf = stream[id].buf \o new.last.appended
                    /\ Len(new.last.appended) = Len(new.last.data)
                    /\ \A k \in 1..Len(new.last.data) :
                          new.last.appended[k] =
                              Convert(new.config.sample_format, new.last.data[k])
                    /\ new.last.len = Len(new.buf)
                    /\ ~IsSome(new.last.taken)
                    /\ Len(new.last.emitted) <= 1
                    /\ \A k \in 1..Len(new.last.emitted) :
                          /\ new.last.emitted[k].data = <<>>
                          /\ new.last.emitted[k].amplitude = new.last.max_v
                    /\ Len(sink') = Len(sink) + Len(new.last.emitted)
                    /\ \A k \in 1..Len(new.last.emitted) :
                          sink'[Len(sink) + k] =
                              [stream |-> id, payload |-> new.last.emitted[k]]]_vars
    /\ [](\A id \in StreamIds :
            ~IsSome(stream[id].last.taken) =>
                \A k \in 1..Len(stream[id].last.emitted) :
                    stream[id].last.emitted[k].data = <<>>)

\* C15 witness: a callback on a buffer that already held samples stayed
\* below the limit and emitted a level-only event with its own peak
C15_Witness ==
    \E id \in StreamIds :
        LET st == stream[id]
        IN  /\ st.last.checked
            /\ ~IsSome(st.last.taken)
            /\ st.last.len < st.config.sample_rate * st.config.channels * 6
            /\ Len(st.buf) = st.last.len
            /\ Len(st.last.appended) < st.last.len
            /\ Len(st.last.emitted) = 1
            /\ st.last.emitted[1].data = <<>>
            /\ st.last.emitted[1].amplitude = st.last.max_v
            /\ st.last.max_v > 0

\* C16: no callback aborts; the callbackPeak of every callback is the
\* maximum absolute value of the block's converted samples; and the peak a
\* drain acts on is the maximum absolute value of the drained samples: a
\* payload is emitted with that value as amplitude exactly when it is over
\* 800. Both peaks are non-negative.
C16_PeaksAreMaxAbs ==
    \A id \in StreamIds :
        LET st == stream[id]
        IN  /\ ~st.poisoned
            /\ st.last.checked =>
                  /\ st.last.max_v = TruePeak(st.last.appended)
                  /\ st.last.max_v >= 0
            /\ DrainedLast(id) =>
                  /\ Len(st.last.emitted) = 1
                  /\ st.last.emitted[1].amplitude >= 0
                  /\ st.last.emitted[1].data # <<>> <=> TruePeak(st.last.taken.val) > 800
                  /\ st.last.emitted[1].data # <<>> =>
                        st.last.emitted[1].amplitude = TruePeak(st.last.taken.val)

\* device d passes the input-capability probe
PassesProbe(d) ==
    \/ d.default_input_config.some
    \/ d.supported_input_configs.some /\ d.supported_input_configs.val # <<>>

\* C17: when a name is requested, both enumerations succeed and some
\* enumerated device of that name passes the input-capability probe,
\* resolve_device returns the first such device, whatever precedes it.
C17_ReturnsCapableMatch ==
    (/\ call.fn = "resolve_device"
     /\ call.done
     /\ IsSome(call.args.target_name)
     /\ call.args.host.devices_ok
     /\ call.args.host.again_ok
     /\ \E k \in 1..Len(call.args.host.present) :
           /\ call.args.host.present[k].name = call.args.target_name
           /\ PassesProbe(call.args.host.present[k]))
    => LET present == call.args.host.present
           first == CHOOSE k \in 1..Len(present) :
                        /\ present[k].name = call.args.target_name
                        /\ PassesProbe(present[k])
                        /\ \A j \in 1..(k - 1) :
                              ~(present[j].name = call.args.target_name
                                  /\ PassesProbe(present[j]))
       IN  /\ IsSome(call.result)
           /\ PassesProbe(call.result.val)
           /\ call.result.val = present[first]

\* the step builds stream id
Creates(id) == id > Len(stream)

\* the step drops the handle of stream id
Destroys(id) ==
    /\ id <= Len(stream)
    /\ stream[id].status = "playing"
    /\ stream'[id].status = "dropped"

\* C18: every step that builds a stream or drops a stream handle is taken
\* with the ActiveStreamSet lock not held.
C18_LockFreeCreateAndDrop ==
    [][\A id \in 1..Len(stream') :
          (Creates(id) \/ Destroys(id)) => streams_lock = "free"]_vars

\* C19: the buffer lock is no longer held when the Container Encoder runs
\* and when the event is handed to the sink.
C19_BufferLockReleasedEarly ==
    (call.fn = "data_callback" /\ call.pc \in {"encode", "emit"}) => ~call.guard

\* the samples a callback of a stream took out of the buffer, none without a
\* drain
TakenBy(last) == IF IsSome(last.taken) THEN last.taken.val ELSE <<>>

\* C20: every callback leaves, in what it drained followed by the buffer,
\* exactly the buffer it found followed by the conversions of all samples of
\* its block, in order; a drain takes everything and leaves the buffer empty.
\* Over a run this makes the drained chunks in order, followed by the buffer,
\* the sequence of all samples received, converted.
C20_NoSampleLost ==
    [][\A id \in StreamIds :
          stream'[id].callbacks = stream[id].callbacks + 1 =>
              LET new == stream'[id]
                  block == AsSeq([k \in 1..Len(new.last.data) |->
                                     Convert(new.config.sample_format, new.last.data[k])])
              IN  /\ TakenBy(new.last) \o new.buf = stream[id].buf \o block
                  /\ IsSome(new.last.taken) => new.buf = <<>>
                  /\ new.received = stream[id].received + Len(new.last.data)]_vars

\* C21: after every callback the accumulation buffer holds at most
\* sampleRate * channelCount * 6 samples; what a callback drained is longer
\* than that limit and at most the limit plus the callback's block; and a
\* callback emits at most one event, exactly one when it drains.
C21_BufferBoundedByLimit ==
    \A id \in StreamIds :
        LET st == stream[id]
            limit == st.config.sample_rate * st.config.channels * 6
        IN  st.callbacks > 0 =>
              /\ Len(st.buf) <= limit
              /\ IsSome(st.last.taken) =>
                    /\ Len(st.last.taken.val) > limit
                    /\ Len(st.last.taken.val) <= limit + Len(st.last.data)
              /\ Len(st.last.emitted) <= 1
              /\ IsSome(st.last.taken) => Len(st.last.emitted) = 1

\* the streams that can fire callbacks: played and not dropped
Running == {id \in StreamIds : stream[id].status = "playing"}

\* C22: at every moment of every run of start_interview_mode and
\* stop_interview_mode calls at most one capture stream is running, and the
\* handle of every running stream is held in the state behind the streams
\* mutex.
C22_AtMostOneRunningStream ==
    /\ Cardinality(Running) <= 1
    /\ \A id \in Running : id \in Range(Owned(streams))

\* the last callback of stream id handed the samples it drained to
\* create_wav_data: the drain emitted an event with a payload
EncodedLast(id) ==
    /\ DrainedLast(id)
    /\ \E k \in 1..Len(stream[id].last.emitted) :
          stream[id].last.emitted[k].data /= <<>>

\* C23: with every callback block a whole number of frames, every sample
\* sequence handed to create_wav_data is non-empty and its length is a
\* multiple of the channel count, so the writer's finalize has no unfinished
\* frame to report and the unwraps in create_wav_data do not panic.
C23_EncoderInputWholeFrames ==
    \A id \in StreamIds :
        EncodedLast(id) =>
            LET st == stream[id]
                samples == st.last.taken.val
            IN  /\ Len(samples) > 0
                /\ Len(samples) % st.config.channels = 0
                /\ ~UnfinishedSample(st.config.channels, samples)
                /\ ~st.poisoned

\* C23 witness: a two-channel stream whose buffer grew over several
\* callbacks drained a whole number of frames into the encoder
C23_Witness ==
    \E id \in StreamIds :
        LET st == stream[id]
        IN  /\ EncodedLast(id)
            /\ st.config.channels = 2
            /\ st.callbacks >= 2
            /\ Len(st.last.taken.val) > Len(st.last.appended)
            /\ Len(st.last.taken.val) > st.config.sample_rate * st.config.channels * 6
            /\ Len(st.last.taken.val) % 2 = 0
            /\ st.last.emitted[1].data =
                  Base64Encode(create_wav_data(st.config.sample_rate,
                                               st.config.channels, st.last.taken.val))

=============================================================================
